---- MODULE Spec2Model ----
(***************************************************************************)
(* NAP Logger (streamlit_app.py): a password-gated Streamlit page over a   *)
(* Google sheet.  The sheet is the only shared state; every script run of  *)
(* a logged-in session re-reads it, "Save changes" sends one update per    *)
(* editor row (Apps Script by uid, Sheets API by row position as the       *)
(* fallback) and "Add report" appends one row through Apps Script.         *)
(*                                                                         *)
(* Abstraction: the sheet has the two columns uid and description; the     *)
(* other report columns (timestamp, reporter, violator, ...) are handled   *)
(* by the code exactly as description is.                                  *)
(***************************************************************************)
EXTENDS Integers, Sequences, FiniteSets, TLC

VARIABLES sheet, logged_in, pc, df, edited, updated_count, errors, called,
          log, lastWrite, form, saves, vals, normalized

vars == <<sheet, logged_in, pc, df, edited, updated_count, errors, called,
          log, lastWrite, form, saves, vals, normalized>>

\* ------------------------------------------------------------------ bounds
MaxRows == 2        \* rows the sheet may hold when a report is added
MaxSaves == 1       \* "Save changes" clicks of one session
MaxEdits == 1       \* editor rows the user changes or adds before one save
MaxLen == 2         \* longest row drawn for the normalization check
MaxVals == 2        \* most data rows drawn for the normalization check

\* --------------------------------------------------------------- constants
Sessions == {1, 2}
ADMIN_PASSWORD == "secret"
Header == <<"uid", "description">>
BlankRow == <<"", "">>
PyNone == "<None>"              \* Python None (a cell the user cleared)
ColNames == <<"col_1", "col_2", "col_3", "col_4", "col_5">>
Uids == <<"u1", "u2", "u3", "u4">>   \* uuid4().hex[:10] of the n-th append

Max(a, b) == IF a >= b THEN a ELSE b

RECURSIVE MaxRowLen(_)
MaxRowLen(rows) ==
  IF rows = <<>> THEN 0 ELSE Max(Len(Head(rows)), MaxRowLen(Tail(rows)))

IndexOf(seq, x) ==
  IF \E k \in 1..Len(seq) : seq[k] = x
  THEN CHOOSE k \in 1..Len(seq) : seq[k] = x /\ \A j \in 1..(k-1) : seq[j] # x
  ELSE 0

\* ------------------------------------------------- Sheets API values().get
\* The API omits trailing empty cells of a row and trailing empty rows.
RECURSIVE TrimRow(_)
TrimRow(r) ==
  IF r = <<>> THEN <<>>
  ELSE IF r[Len(r)] = "" THEN TrimRow(SubSeq(r, 1, Len(r) - 1)) ELSE r

RECURSIVE TrimRows(_)
TrimRows(rows) ==
  IF rows = <<>> THEN <<>>
  ELSE IF rows[Len(rows)] = <<>> THEN TrimRows(SubSeq(rows, 1, Len(rows) - 1))
  ELSE rows

ValuesGet(sh) == TrimRows([k \in 1..Len(sh) |-> TrimRow(sh[k])])

\* ------------------------------------------------------- read_sheet_as_df
EmptyDf == [columns |-> <<>>, rows |-> <<>>]

PadHeaderFromZero(headers, max_len) ==
  headers \o [k \in 1..(max_len - Len(headers)) |-> ColNames[k]]

PadHeader(headers, max_len) ==
  headers \o [k \in 1..(max_len - Len(headers)) |-> ColNames[Len(headers) + k]]

NormalizeRow(r, max_len) ==
  IF Len(r) < max_len THEN r \o [k \in 1..(max_len - Len(r)) |-> ""]
  ELSE IF Len(r) > max_len THEN SubSeq(r, 1, max_len)
  ELSE r

read_sheet_as_df(v) ==
  IF v = <<>> THEN EmptyDf
  ELSE LET headers   == Head(v)
           data_rows == Tail(v)
           max_len   == Max(Len(headers), MaxRowLen(data_rows))
       IN [columns |-> PadHeader(headers, max_len),
           rows    |-> [k \in 1..Len(data_rows) |->
                          NormalizeRow(data_rows[k], max_len)]]

DfEmpty(d) == d.rows = <<>> \/ d.columns = <<>>


\* ------------------------------------------------------------ Apps Script
\* The web app behind APP_SCRIPT_URL, by its JSON contract: "add" appends one
\* row, "update" rewrites the named columns of the first row whose uid cell
\* equals the request's uid and answers ok=false when there is none.  A
\* transport failure leaves the sheet as it was.
Range(f) == {f[x] : x \in DOMAIN f}

RemoteAdd(sh, payload) ==
  [ok |-> TRUE, sheet |-> Append(sh, <<payload.uid, payload.description>>)]

RemoteUpdate(sh, payload) ==
  LET hdr    == IF sh = <<>> THEN <<>> ELSE sh[1]
      uidcol == IndexOf(hdr, "uid")
      hits   == IF uidcol = 0 \/ payload["uid"] = "" THEN {}
                ELSE {r \in 2..Len(sh) : sh[r][uidcol] = payload["uid"]}
  IN IF hits = {} THEN [ok |-> FALSE, sheet |-> sh, row |-> 0]
     ELSE LET r == CHOOSE x \in hits : \A y \in hits : x <= y
          IN [ok    |-> TRUE,
              row   |-> r,
              sheet |-> [sh EXCEPT ![r] =
                          [c \in 1..Len(sh[r]) |->
                             IF hdr[c] \in DOMAIN payload THEN payload[hdr[c]]
                             ELSE sh[r][c]]]]

\* ----------------------------------------------------------- append_row
AddPayload(row_list) ==
  [uid         |-> IF Len(row_list) > 0 THEN row_list[1] ELSE "",
   description |-> IF Len(row_list) > 1 THEN row_list[2] ELSE ""]

append_row(sh, row_list, ok) ==
  IF ok THEN [raised |-> FALSE, sheet |-> RemoteAdd(sh, AddPayload(row_list)).sheet]
  ELSE [raised |-> TRUE, sheet |-> sh]

\* ------------------------------------------------------ update_row_by_uid
\* payload starts as {"uid": uid}; every column of data_dict is then copied
\* in under its own name, None becoming "".
UpdatePayload(uid, cols, cells) ==
  [k \in {"uid"} \cup Range(cols) |->
     IF k \in Range(cols)
     THEN LET v == cells[IndexOf(cols, k)] IN IF v = PyNone THEN "" ELSE v
     ELSE uid]

update_row_by_uid(sh, uid, cols, cells, ok) ==
  LET payload == UpdatePayload(uid, cols, cells)
      resp    == RemoteUpdate(sh, payload)
  IN IF ok /\ resp.ok
     THEN [raised |-> FALSE, sheet |-> resp.sheet, row |-> resp.row,
           sent |-> payload["uid"]]
     ELSE [raised |-> TRUE, sheet |-> sh, row |-> 0, sent |-> payload["uid"]]

\* ------------------------------------- update_row_by_sheet_index_fallback
\* valueInputOption USER_ENTERED parses what is written as a user's typing
\* would be: numeric-looking text becomes the number.
UserEntered(v) == IF v = "07" THEN "7" ELSE v

\* values().update on A{r}:{last_col}{r}: a null leaves its cell alone, more
\* values than the range holds is an API error.
SheetsAppend(sh, r, row_values) ==
  Append(sh, [c \in 1..Len(BlankRow) |->
                IF c <= Len(row_values) /\ row_values[c] # PyNone
                THEN UserEntered(row_values[c]) ELSE ""])

SheetsUpdateRowBelow(sh, r, row_values) ==
  LET grown == sh \o [k \in 1..(r + 1 - Len(sh)) |-> BlankRow]
  IN [grown EXCEPT ![r + 1] =
        [c \in 1..Len(grown[r + 1]) |->
           IF c <= Len(row_values) /\ row_values[c] # PyNone
           THEN UserEntered(row_values[c]) ELSE grown[r + 1][c]]]

SheetsUpdate(sh, r, row_values) ==
  LET grown == sh \o [k \in 1..(r - Len(sh)) |-> BlankRow]
  IN [grown EXCEPT ![r] =
        [c \in 1..Len(grown[r]) |->
           IF c <= Len(row_values) /\ row_values[c] # PyNone
           THEN UserEntered(row_values[c]) ELSE grown[r][c]]]

update_row_by_sheet_index_fallback(sh, sheet_row_index, row_values, okGet, okUpd) ==
  LET header == IF sh = <<>> THEN <<>> ELSE TrimRow(sh[1])
  IN IF ~okGet THEN [raised |-> TRUE, msg |-> 0, wrote |-> FALSE, sheet |-> sh]
     ELSE IF header = <<>>
          THEN [raised |-> FALSE, msg |-> 1, wrote |-> FALSE, sheet |-> sh]
     ELSE IF ~okUpd \/ Len(row_values) > Len(header)
          THEN [raised |-> TRUE, msg |-> 0, wrote |-> FALSE, sheet |-> sh]
     ELSE [raised |-> FALSE, msg |-> 0, wrote |-> TRUE,
           sheet |-> SheetsUpdate(sh, sheet_row_index, row_values)]

\* ------------------------------------------------------------- the editor
\* st.data_editor over df_display: sheet_row = i + 2, then the df's columns.
\* A row added in the editor has no sheet_row and no values.
df_display(d) ==
  [k \in 1..Len(d.rows) |-> [sheet_row |-> <<k + 1>>, cells |-> d.rows[k]]]

AddedRow(d) ==
  [sheet_row |-> <<>>, cells |-> [c \in 1..Len(d.columns) |-> PyNone]]

\* One change of the user to one editor row.
EditKinds == {"none", "desc07", "descNone", "uidNone", "uidUnknown", "uidOther"}

OtherRow(d, k) == (k % Len(d.rows)) + 1

EditCells(d, k, kind) ==
  LET cells == d.rows[k]
      SetAt(j, v) == IF j \in 1..Len(cells) THEN [cells EXCEPT ![j] = v] ELSE cells
  IN CASE kind = "desc07"     -> SetAt(2, "07")
       [] kind = "descB"      -> SetAt(2, "b")
       [] kind = "descNone"   -> SetAt(2, PyNone)
       [] kind = "uidNone"    -> SetAt(1, PyNone)
       [] kind = "uidUnknown" -> SetAt(1, "zz")
       [] kind = "uidOther"   -> SetAt(1, d.rows[OtherRow(d, k)][1])
       [] OTHER               -> cells

Edited(d, kinds, added) ==
  [k \in 1..Len(d.rows) |->
     [df_display(d)[k] EXCEPT !.cells = EditCells(d, k, kinds[k])]]
  \o (IF added THEN <<AddedRow(d)>> ELSE <<>>)

\* ------------------------------------------------- "Save changes", one row
Truthy(v) == v # PyNone /\ v # ""

RowGet(cols, row, col) ==
  IF IndexOf(cols, col) = 0 THEN "" ELSE row.cells[IndexOf(cols, col)]

\* lines 227-238: the edited uid cell when it is non-empty, else the uid the
\* original df holds at sheet_row - 2.
ResolveUid(d, row) ==
  IF IndexOf(d.columns, "uid") # 0 /\ Truthy(RowGet(d.columns, row, "uid"))
  THEN RowGet(d.columns, row, "uid")
  ELSE LET orig_idx == row.sheet_row[1] - 2
       IN IF 0 <= orig_idx /\ orig_idx < Len(d.rows) /\ IndexOf(d.columns, "uid") # 0
          THEN d.rows[orig_idx + 1][IndexOf(d.columns, "uid")]
          ELSE PyNone

RowValues(d, row) == [c \in 1..Len(d.columns) |-> RowGet(d.columns, row, d.columns[c])]


RowsChanged(d, ed) ==
  {k \in 1..Len(ed) : k > Len(d.rows) \/ ed[k].cells # d.rows[k]}

\* line 215: the loop visits every row the editor shows, edited or not.
RowsToUpdate(d, ed) == 1..Len(ed)

\* ------------------------------------------------------------ the add form
\* Form texts are character sequences, so that strip() is computed.
FormTexts == {<<>>, <<" ">>, <<"a">>, <<" ", "a">>}

Text(t) ==
  CASE t = <<>>         -> ""
    [] t = <<" ">>      -> " "
    [] t = <<"a">>      -> "a"
    [] t = <<" ", "a">> -> " a"
    [] OTHER            -> ""

RECURSIVE lstrip(_)
lstrip(t) == IF t # <<>> /\ Head(t) = " " THEN lstrip(Tail(t)) ELSE t

RECURSIVE rstrip(_)
rstrip(t) ==
  IF t # <<>> /\ t[Len(t)] = " " THEN rstrip(SubSeq(t, 1, Len(t) - 1)) ELSE t

NoStrip(t) == t

strip(t) == rstrip(lstrip(t))

\* line 289
Rejected(reporter, description) == strip(reporter) = <<>> \/ strip(description) = <<>>

NoForm == [reporter |-> <<>>, description |-> <<>>, append |-> "none"]

\* ------------------------------------------------------------------- state
RowIdx == 1..(MaxRows + 2)
NoWrite == <<>>
NoReq == "<no request>"

\* The sheet before the first run: a header row alone, or a sheet whose first
\* row is blank above one report (the case line 135 tests for).
InitSheets == { <<Header>>, <<BlankRow, <<"u0", "a">>>> }

InitSessions ==
  /\ logged_in = [s \in Sessions |-> FALSE]
  /\ pc = [s \in Sessions |-> "gate"]
  /\ df = [s \in Sessions |-> EmptyDf]
  /\ edited = [s \in Sessions |-> <<>>]
  /\ updated_count = [s \in Sessions |-> 0]
  /\ errors = [s \in Sessions |-> 0]
  /\ called = [s \in Sessions |-> FALSE]
  /\ log = [s \in Sessions |-> <<>>]
  /\ lastWrite = [r \in RowIdx |-> NoWrite]
  /\ form = [s \in Sessions |-> NoForm]
  /\ saves = [s \in Sessions |-> 0]

Init ==
  /\ sheet \in InitSheets
  /\ InitSessions
  /\ vals = <<>>
  /\ normalized = [done |-> FALSE, df |-> EmptyDf]

GateOpen(s) == TRUE

\* lines 151-163: the script goes past st.stop() only when logged_in is set.
Gate(s) == logged_in[s]

Busy(s) == pc[s] \in {"row", "fallback"}

\* The widgets of the main page exist once a run got past the read at line 171.
PageShown(s) == pc[s] \in {"idle", "saved", "submitted"}

\* line 171, not inside any try: a failed read ends the run with the exception.
ForgetWrites(s) ==
  [r \in RowIdx |->
     IF lastWrite[r] # NoWrite /\ lastWrite[r][1] = s THEN NoWrite ELSE lastWrite[r]]

MainRun(s, ok) ==
  /\ called' = [called EXCEPT ![s] = TRUE]
  /\ pc' = [pc EXCEPT ![s] = IF ok THEN "idle" ELSE "crashed"]
  /\ df' = [df EXCEPT ![s] = IF ok THEN read_sheet_as_df(ValuesGet(sheet)) ELSE EmptyDf]
  /\ edited' = [edited EXCEPT ![s] = <<>>]
  /\ log' = [log EXCEPT ![s] = <<>>]
  /\ updated_count' = [updated_count EXCEPT ![s] = 0]
  /\ errors' = [errors EXCEPT ![s] = 0]
  /\ form' = [form EXCEPT ![s] = NoForm]
  /\ lastWrite' = ForgetWrites(s)
  /\ UNCHANGED sheet

\* lines 154-163, then the rerun of a successful login
Login(s) ==
  /\ ~logged_in[s]
  /\ \E pw \in {ADMIN_PASSWORD, "wrong"} :
       IF pw = ADMIN_PASSWORD
       THEN /\ logged_in' = [logged_in EXCEPT ![s] = TRUE]
            /\ \E ok \in BOOLEAN : MainRun(s, ok)
       ELSE /\ errors' = [errors EXCEPT ![s] = 1]
            /\ UNCHANGED <<sheet, logged_in, pc, df, edited, updated_count,
                           called, log, lastWrite, form>>
  /\ UNCHANGED <<saves, vals, normalized>>

\* any rerun of the page without a button pressed
View(s) ==
  /\ Gate(s)
  /\ ~Busy(s)
  /\ \E ok \in BOOLEAN : MainRun(s, ok)
  /\ UNCHANGED <<logged_in, saves, vals, normalized>>

\* lines 171-214: the run of a "Save changes" click, up to the loop
SaveClickWith(s, Kinds, Added) ==
  /\ Gate(s)
  /\ PageShown(s)
  /\ ~DfEmpty(df[s])
  /\ saves[s] < MaxSaves
  /\ saves' = [saves EXCEPT ![s] = @ + 1]
  /\ \E ok \in BOOLEAN :
       LET d == read_sheet_as_df(ValuesGet(sheet))
       IN IF ~ok \/ DfEmpty(d)
          THEN MainRun(s, ok)
          ELSE \E kinds \in [1..Len(d.rows) -> Kinds], added \in Added :
                 /\ \A k \in 1..Len(d.rows) :
                      kinds[k] = "uidOther" => Len(d.rows) > 1
                 /\ Cardinality({k \in 1..Len(d.rows) : kinds[k] # "none"})
                      + (IF added THEN 1 ELSE 0) <= MaxEdits
                 /\ called' = [called EXCEPT ![s] = TRUE]
                 /\ df' = [df EXCEPT ![s] = d]
                 /\ edited' = [edited EXCEPT ![s] = Edited(d, kinds, added)]
                 /\ pc' = [pc EXCEPT ![s] = "row"]
                 /\ log' = [log EXCEPT ![s] = <<>>]
                 /\ updated_count' = [updated_count EXCEPT ![s] = 0]
                 /\ errors' = [errors EXCEPT ![s] = 0]
                 /\ form' = [form EXCEPT ![s] = NoForm]
                 /\ lastWrite' = ForgetWrites(s)
                 /\ UNCHANGED sheet
  /\ UNCHANGED <<logged_in, vals, normalized>>

\* One session saves at most MaxSaves times before the page is reloaded by
\* another user; the cap bounds the model.
SaveClick(s) == SaveClickWith(s, EditKinds, BOOLEAN)

NextPc(s, k) == IF k = Len(edited[s]) THEN "saved" ELSE "row"

\* lines 253-267: the row-position update and what the loop does with it
Fallback(s, k, entry) ==
  \E okGet \in BOOLEAN, okUpd \in BOOLEAN :
    LET row == edited[s][k]
        res == update_row_by_sheet_index_fallback(
                 sheet, row.sheet_row[1], RowValues(df[s], row), okGet, okUpd)
        how == IF res.raised THEN "failed"
               ELSE IF res.wrote THEN "pos" ELSE "noheader"
    IN /\ sheet' = res.sheet
       /\ updated_count' = [updated_count EXCEPT ![s] = @ + (IF res.raised THEN 0 ELSE 1)]
       /\ errors' = [errors EXCEPT ![s] = @ + (IF res.raised THEN 1 ELSE res.msg)]
       /\ log' = [log EXCEPT ![s] = SubSeq(@, 1, k - 1) \o
                    <<[entry EXCEPT !.how = how, !.fb = 1,
                                    !.fault = res.raised /\ (~okGet \/ ~okUpd)]>>]
       /\ lastWrite' = IF res.wrote
                       THEN [lastWrite EXCEPT ![row.sheet_row[1]] = <<s, k, "pos">>]
                       ELSE lastWrite
       /\ pc' = [pc EXCEPT ![s] = NextPc(s, k)]

\* lines 215-251, 261-267: one pass of the loop, up to its first backend call
SaveRow(s) ==
  /\ pc[s] = "row"
  /\ LET k     == Len(log[s]) + 1
         row   == edited[s][k]
         entry == [how |-> "skipped", resolved |-> PyNone, sent |-> NoReq,
                   pri |-> 0, fb |-> 0, fault |-> FALSE]
     IN IF row.sheet_row = <<>> \/ k \notin RowsToUpdate(df[s], edited[s])
        THEN /\ log' = [log EXCEPT ![s] = Append(@, entry)]
             /\ pc' = [pc EXCEPT ![s] = NextPc(s, k)]
             /\ UNCHANGED <<sheet, updated_count, errors, lastWrite>>
        ELSE LET uid_val == ResolveUid(df[s], row)
                 e2      == [entry EXCEPT !.resolved = uid_val]
             IN IF Truthy(uid_val)
                THEN \E ok \in BOOLEAN :
                       LET res == update_row_by_uid(sheet, uid_val, df[s].columns,
                                                    RowValues(df[s], row), ok)
                           e3  == [e2 EXCEPT !.sent = res.sent, !.pri = 1]
                       IN IF res.raised
                          THEN /\ log' = [log EXCEPT ![s] =
                                            Append(@, [e3 EXCEPT !.how = "pending"])]
                               /\ pc' = [pc EXCEPT ![s] = "fallback"]
                               /\ UNCHANGED <<sheet, updated_count, errors, lastWrite>>
                          ELSE /\ sheet' = res.sheet
                               /\ updated_count' = [updated_count EXCEPT ![s] = @ + 1]
                               /\ log' = [log EXCEPT ![s] =
                                            Append(@, [e3 EXCEPT !.how = "uid"])]
                               /\ lastWrite' = [lastWrite EXCEPT ![res.row] = <<s, k, "uid">>]
                               /\ pc' = [pc EXCEPT ![s] = NextPc(s, k)]
                               /\ UNCHANGED errors
                ELSE Fallback(s, k, e2)
  /\ UNCHANGED <<logged_in, df, edited, called, form, saves, vals, normalized>>

\* lines 252-260: the fallback after a failed update by uid
SaveFallback(s) ==
  /\ pc[s] = "fallback"
  /\ Fallback(s, Len(log[s]), log[s][Len(log[s])])
  /\ UNCHANGED <<logged_in, df, edited, called, form, saves, vals, normalized>>

\* lines 171, 288-301: the run of an "Add report" click
Submit(s) ==
  /\ Gate(s)
  /\ PageShown(s)
  /\ \E reporter \in FormTexts, description \in FormTexts \ {<<" ", "a">>}, okRead \in BOOLEAN :
       IF ~okRead THEN MainRun(s, FALSE)
       ELSE
         /\ called' = [called EXCEPT ![s] = TRUE]
         /\ edited' = [edited EXCEPT ![s] = <<>>]
         /\ log' = [log EXCEPT ![s] = <<>>]
         /\ updated_count' = [updated_count EXCEPT ![s] = 0]
         /\ lastWrite' = ForgetWrites(s)
         /\ IF Rejected(reporter, description)
            THEN /\ errors' = [errors EXCEPT ![s] = 1]
                 /\ form' = [form EXCEPT ![s] = [reporter |-> reporter,
                               description |-> description, append |-> "none"]]
                 /\ pc' = [pc EXCEPT ![s] = "submitted"]
                 /\ df' = [df EXCEPT ![s] = read_sheet_as_df(ValuesGet(sheet))]
                 /\ UNCHANGED sheet
            ELSE /\ Len(sheet) <= MaxRows
                 /\ \E okAdd \in BOOLEAN, okRerun \in BOOLEAN :
                      LET uid == Uids[Len(sheet)]
                          res == append_row(sheet, <<uid, Text(description)>>, okAdd)
                      IN /\ sheet' = res.sheet
                         /\ form' = [form EXCEPT ![s] = [reporter |-> reporter,
                                       description |-> description,
                                       append |-> IF res.raised THEN "failed" ELSE "ok"]]
                         /\ errors' = [errors EXCEPT ![s] = IF res.raised THEN 1 ELSE 0]
                         /\ pc' = [pc EXCEPT ![s] =
                              IF res.raised \/ okRerun THEN "submitted" ELSE "crashed"]
                         /\ df' = [df EXCEPT ![s] =
                              IF res.raised THEN read_sheet_as_df(ValuesGet(sheet))
                              ELSE IF okRerun THEN read_sheet_as_df(ValuesGet(res.sheet))
                              ELSE EmptyDf]
  /\ UNCHANGED <<logged_in, saves, vals, normalized>>

Next ==
  \E s \in {1} :
    \/ Login(s)
    \/ View(s)
    \/ SaveClick(s)
    \/ SaveRow(s)
    \/ SaveFallback(s)
    \/ Submit(s)

Spec == Init /\ [][Next]_vars


\* ------------------------------------------- read_sheet_as_df on its own
\* Any ragged matrix the API may answer: a header of up to MaxLen names and
\* up to MaxVals rows of up to MaxLen cells.
HdrNames == <<"uid", "description", "proof_link", "notes">>

SeqsUpTo(S, n) == UNION {[1..m -> S] : m \in 0..n}

Matrices ==
  {<<>>} \cup
  {<<SubSeq(HdrNames, 1, h)>> \o rows :
     h \in 0..MaxLen, rows \in SeqsUpTo(SeqsUpTo({"", "x"}, MaxLen), MaxVals)}

InitNorm ==
  /\ sheet = <<Header>>
  /\ InitSessions
  /\ vals \in Matrices
  /\ normalized = [done |-> FALSE, df |-> EmptyDf]

Normalize ==
  /\ ~normalized.done
  /\ normalized' = [done |-> TRUE, df |-> read_sheet_as_df(vals)]
  /\ UNCHANGED <<sheet, logged_in, pc, df, edited, updated_count, errors, called,
                 log, lastWrite, form, saves, vals>>

SpecNorm == InitNorm /\ [][Normalize]_vars

\* ------------------------------------------------ two sessions saving
\* Both sessions are logged in and show the same two reports; each edits and
\* saves once, their backend calls interleaving in every order.
RaceSheet == <<Header, <<"u1", "a">>, <<"u2", "a">>>>

RaceKinds(s) == IF s = 1 THEN {"none", "desc07", "uidOther"} ELSE {"none", "descB"}

InitRace ==
  /\ sheet = RaceSheet
  /\ logged_in = [s \in Sessions |-> TRUE]
  /\ pc = [s \in Sessions |-> "idle"]
  /\ df = [s \in Sessions |-> read_sheet_as_df(ValuesGet(RaceSheet))]
  /\ edited = [s \in Sessions |-> <<>>]
  /\ updated_count = [s \in Sessions |-> 0]
  /\ errors = [s \in Sessions |-> 0]
  /\ called = [s \in Sessions |-> TRUE]
  /\ log = [s \in Sessions |-> <<>>]
  /\ lastWrite = [r \in RowIdx |-> NoWrite]
  /\ form = [s \in Sessions |-> NoForm]
  /\ saves = [s \in Sessions |-> 0]
  /\ vals = <<>>
  /\ normalized = [done |-> FALSE, df |-> EmptyDf]

RaceSave(s) ==
  /\ pc[s] = "idle"
  /\ saves[s] = 0
  /\ SaveClickWith(s, RaceKinds(s), {FALSE})

NextRace ==
  \E s \in Sessions :
    \/ RaceSave(s)
    \/ SaveRow(s)
    \/ SaveFallback(s)

SpecRace == InitRace /\ [][NextRace]_vars


\* ============================================================ properties
Applied(e) == e.how \in {"uid", "pos"}

Count(S) == Cardinality(S)

Done(s) == 1..(IF pc[s] = "fallback" THEN Len(log[s]) - 1 ELSE Len(log[s]))

\* C1: a session has issued a backend call (read, update, append) only if its
\* logged_in flag is set; wrong-password attempts leave it without any call.
C1_NoBackendBeforeLogin ==
  \A s \in Sessions : called[s] => logged_in[s]

C1_Witness ==
  \E s \in Sessions : ~logged_in[s] /\ errors[s] = 1 /\ ~called[s]

\* C2 (as claimed): when a save has finished, the reported success count is
\* the number of rows whose update was applied to the sheet, and the number
\* of error messages is the number of processed rows whose update was not.
C2_ReportMatchesApplied ==
  \A s \in Sessions :
    pc[s] = "saved" =>
      /\ Len(log[s]) = Len(edited[s])
      /\ updated_count[s] = Count({k \in 1..Len(log[s]) : Applied(log[s][k])})
      /\ errors[s] = Count({k \in 1..Len(log[s]) :
                              log[s][k].how \in {"failed", "noheader"}})

\* C3: a submit whose reporter or description is blank after trimming sends
\* no append, leaves the sheet as it was and shows one error message.
AllBlank(t) == \A j \in 1..Len(t) : t[j] = " "

C3_BlankSubmitWritesNothing ==
  [][\A s \in {1} :
       (pc'[s] = "submitted" /\ form'[s] # NoForm
          /\ (AllBlank(form'[s].reporter) \/ AllBlank(form'[s].description)))
       => (sheet' = sheet /\ form'[s].append = "none" /\ errors'[s] = 1)]_vars

C3_Witness ==
  /\ pc[1] = "submitted"
  /\ form[1].reporter = <<" ", "a">>
  /\ form[1].description = <<" ">>
  /\ form[1].append = "none"
  /\ errors[1] = 1

\* C4 (as claimed): no step changes the uid cell of a stored report.
C4_UidImmutable ==
  [][\A r \in 2..Len(sheet) :
       sheet[1] = Header => sheet'[r][1] = sheet[r][1]]_vars

\* C5 (as claimed): no backend failure ends a script run with an uncaught
\* exception.
C5_NoUncaughtFailure ==
  \A s \in Sessions : pc[s] # "crashed"

\* C6 (as claimed): a row whose edited values equal the loaded ones causes no
\* update request.
C6_UnchangedRowNotSent ==
  \A s \in Sessions : \A k \in 1..Len(log[s]) :
    (k <= Len(df[s].rows) /\ edited[s][k].cells = df[s].rows[k])
      => (log[s][k].pri = 0 /\ log[s][k].fb = 0)

\* C6 (amended): the save does not diff.  Every editor row with a sheet_row,
\* changed or not, gets an update: one by uid when a uid resolves, and the
\* row-position update when none resolves or the update by uid failed.
C6_EveryShownRowSent ==
  \A s \in Sessions : \A k \in 1..Len(log[s]) :
    edited[s][k].sheet_row # <<>> =>
      LET e == log[s][k]
      IN /\ e.how # "skipped"
         /\ e.pri = (IF Truthy(e.resolved) THEN 1 ELSE 0)
         /\ e.pri + e.fb >= 1
         /\ (e.how = "uid" => e.fb = 0)
         /\ (e.how \in {"pos", "noheader", "failed"} => e.fb = 1)

C6_Witness ==
  \E s \in Sessions : \E k \in 1..Len(log[s]) :
    /\ pc[s] = "saved"
    /\ k <= Len(df[s].rows)
    /\ edited[s][k].cells = df[s].rows[k]
    /\ log[s][k].how = "uid"

\* C7: read_sheet_as_df gives every row the width W = max(H, max Li); a row
\* keeps its cells and is filled with "" up to W; the first H column names
\* are the header and position j > H is named col_j.
SetMax(S) == CHOOSE x \in S : \A y \in S : y <= x

C7_Normalized ==
  (normalized.done /\ vals # <<>>) =>
    LET hdr  == vals[1]
        H    == Len(hdr)
        n    == Len(vals) - 1
        W    == SetMax({H} \cup {Len(vals[k + 1]) : k \in 1..n})
        out  == normalized.df
    IN /\ Len(out.columns) = W
       /\ Len(out.rows) = n
       /\ \A j \in 1..W : out.columns[j] = (IF j <= H THEN hdr[j] ELSE ColNames[j])
       /\ \A k \in 1..n :
            /\ Len(out.rows[k]) = W
            /\ \A j \in 1..W :
                 out.rows[k][j] =
                   (IF j <= Len(vals[k + 1]) THEN vals[k + 1][j] ELSE "")

C7_Witness ==
  /\ normalized.done
  /\ Len(vals) = 3
  /\ Len(vals[1]) = 1
  /\ Len(vals[2]) = 2
  /\ Len(vals[3]) = 0
  /\ normalized.df.columns = <<"uid", "col_2">>
  /\ normalized.df.rows[2] = <<"", "">>

\* C8: once an update has been applied (by uid or by row position), sending
\* the same update again succeeds and leaves the sheet exactly as it is.
C8_UpdateIdempotent ==
  \A s \in {1} :
    (pc[s] \in {"row", "saved"} /\ log[s] # <<>>) =>
      LET k   == Len(log[s])
          e   == log[s][k]
          row == edited[s][k]
          v   == RowValues(df[s], row)
      IN /\ e.how = "uid" =>
              LET again == update_row_by_uid(sheet, e.resolved, df[s].columns, v, TRUE)
              IN ~again.raised /\ again.sheet = sheet
         /\ e.how = "pos" =>
              LET again == update_row_by_sheet_index_fallback(
                             sheet, row.sheet_row[1], v, TRUE, TRUE)
              IN ~again.raised /\ again.sheet = sheet

C8_Witness ==
  /\ pc[1] = "saved"
  /\ Len(log[1]) = 2
  /\ log[1][1].how = "uid"
  /\ log[1][2].how = "pos"
  /\ edited[1][2].cells[2] = "07"

\* C9: two sessions saving concurrently.  No row is reported as failed unless
\* its own row-position call hit a transport fault, the error count is the
\* number of such rows, and every sheet row holds what the update applied to
\* it last carried.
Carried(w) ==
  LET cells == edited[w[1]][w[2]].cells
  IN IF w[3] = "uid" THEN cells ELSE [c \in 1..Len(cells) |-> UserEntered(cells[c])]

C9_LastWriterWins ==
  /\ \A s \in Sessions : \A k \in Done(s) :
       log[s][k].how = "failed" => log[s][k].fault
  /\ \A s \in Sessions :
       errors[s] = Count({k \in Done(s) : log[s][k].how = "failed"})
  /\ \A r \in 2..Len(sheet) :
       lastWrite[r] # NoWrite => sheet[r] = Carried(lastWrite[r])

C9_Witness ==
  /\ \A s \in Sessions : pc[s] = "saved" /\ errors[s] = 0
  /\ edited[1][1].cells[2] = "07"
  /\ edited[2][1].cells[2] = "b"
  /\ lastWrite[2][1] = 2
  /\ sheet[2][2] = "b"
  /\ lastWrite[3][1] = 1

\* C10 (as claimed): every update request sent by uid carries the resolved
\* uid in its "uid" field.
C10_RequestCarriesResolvedUid ==
  \A s \in Sessions : \A k \in 1..Len(log[s]) :
    log[s][k].pri = 1 => log[s][k].sent = log[s][k].resolved

====
